---- MODULE Spec2Model ----
(***************************************************************************)
(* Model of service.py: the /predict endpoint of ml_scoring_service.       *)
(*                                                                         *)
(* A request carries a JSON "features" value.  The JSON layer parses it    *)
(* against PredictionRequest (List[List[float]]), predict hands the parsed *)
(* list to DummyModel.predict_proba (asarray, sum over axis 1, sigmoid,    *)
(* vstack/transpose), thresholds column 1 at 0.5 and returns the labels    *)
(* with the scores rounded to 4 decimals.  An exception that predict does  *)
(* not catch leaves the handler as an unhandled fault.                     *)
(*                                                                         *)
(* Numbers.  A feature value is an integer count of 1e-4 (so -1 is         *)
(* -0.0001 and 66000 is 6.6); row sums of the model's values are exact     *)
(* in that unit.  A probability is an integer count of 1e-9: the IEEE      *)
(* double the code computes, truncated.  A returned (rounded) score is an  *)
(* integer count of 1e-4.  For every row sum the model can build, the two  *)
(* decisions the code takes on a probability (>= 0.5, round(., 4)) come    *)
(* out on the truncated value as they do on the double.  Non-finite        *)
(* inputs (NaN, Infinity) and sums that overflow a double are outside the  *)
(* model.                                                                  *)
(***************************************************************************)
EXTENDS Integers, Sequences, FiniteSets, TLC

\* ------------------------------------------------------------------ bounds

\* Largest number of rows, and of elements in a row, of a request.
MaxRows == 2
MaxCols == 2

\* Feature values of the sequential specification, in 1e-4: -10.0, -0.0001, 6.6.
Numbers == {-100000, -1, 66000}
\* Feature value of the concurrent specification, in 1e-4: 1.0.
ConcNumbers == {10000}

\* -------------------------------------------------------------- constants

\* One probability unit: 1.0 in counts of 1e-9.
PUnit == 1000000000
\* round(float(s), 4)
NDIGITS == 4
\* s >= 0.5
Threshold == PUnit \div 2
\* One unit of a rounded score (1e-4), in probability units.
RoundUnit == PUnit \div (10 ^ NDIGITS)
\* model_version="v1.0.0"
MODEL_VERSION == "v1.0.0"

\* ------------------------------------------------------------ JSON values

JNumber(v) == <<"number", v>>
\* A JSON string that is no number ("abc"): float() of it fails.
JString == <<"string", 0>>

SeqsUpTo(S, n) == UNION {[1..k -> S] : k \in 0..n}

\* Every "features" value: a list of at most MaxRows lists of at most MaxCols
\* elements, each a number of nums or, with strs, the string.
Payloads(nums, strs) ==
    SeqsUpTo(SeqsUpTo({JNumber(v) : v \in nums} \cup strs, MaxCols), MaxRows)

\* ------------------------------------------------------- PredictionRequest

\* features: List[List[float]]: every element must convert to float.  No
\* constraint on the number of rows or on their lengths.
RequestValidates(payload) ==
    \A i \in 1..Len(payload) : \A j \in 1..Len(payload[i]) :
        payload[i][j][1] = "number"

\* request.features after validation: the floats.
RequestFeatures(payload) ==
    [i \in 1..Len(payload) |-> [j \in 1..Len(payload[i]) |-> payload[i][j][2]]]

\* ------------------------------------------------------------------- numpy

RECURSIVE SumSeq(_)
SumSeq(s) == IF s = <<>> THEN 0 ELSE s[1] + SumSeq(Tail(s))

Ragged(F) == \E i, j \in 1..Len(F) : Len(F[i]) # Len(F[j])

NoArray == [raised |-> "", ndim |-> 0, shape |-> <<>>, data |-> <<>>]

\* np.asarray(X) of a list of lists of floats.  [] is a 1-D array of shape
\* (0,).  Rows of one length n give a 2-D array of shape (rows, n), n = 0
\* included.  Rows of differing lengths raise ValueError (numpy >= 1.24) or,
\* on a legacy build, give a 1-D object array of the row lists.
asarray(F, legacy) ==
    IF Len(F) = 0
    THEN [raised |-> "", ndim |-> 1, shape |-> <<0>>, data |-> <<>>]
    ELSE IF Ragged(F)
    THEN IF legacy
         THEN [raised |-> "", ndim |-> 1, shape |-> <<Len(F)>>, data |-> <<>>]
         ELSE [NoArray EXCEPT !.raised = "ValueError"]
    ELSE [raised |-> "", ndim |-> 2, shape |-> <<Len(F), Len(F[1])>>, data |-> F]

\* X.sum(axis=1): axis 1 must exist.
SumRaises(X) == X.ndim < 2

\* A defect: the sum runs over axis 0, one sum per column.
RowSumsAxis0(X) ==
    [j \in 1..X.shape[2] |-> SumSeq([i \in 1..X.shape[1] |-> X.data[i][j]])]

\* X.sum(axis=1) of a 2-D array: one sum per row (0.0 for a row of no element).
RowSums(X) == [i \in 1..X.shape[1] |-> SumSeq(X.data[i])]

\* 1.0 / (1.0 + np.exp(-x)) for the row sums x the model can build.
sigmoid_table ==
    (-400000 :> 0) @@ (-300001 :> 0) @@ (-300000 :> 0)
 @@ (-234000 :> 0) @@ (-200002 :> 2) @@ (-200001 :> 2)
 @@ (-200000 :> 2) @@ (-134001 :> 1514) @@ (-134000 :> 1515)
 @@ (-100003 :> 45384) @@ (-100002 :> 45388) @@ (-100001 :> 45393)
 @@ (-100000 :> 45397) @@ (-68000 :> 1112536) @@ (-34002 :> 32289214)
 @@ (-34001 :> 32292339) @@ (-34000 :> 32295464) @@ (-4 :> 499900000)
 @@ (-3 :> 499925000) @@ (-2 :> 499950000) @@ (-1 :> 499975000)
 @@ (0 :> 500000000) @@ (10000 :> 731058578) @@ (20000 :> 880797077)
 @@ (30000 :> 952574126) @@ (31999 :> 960830513) @@ (32000 :> 960834277)
 @@ (40000 :> 982013790) @@ (65997 :> 998641072) @@ (65998 :> 998641208)
 @@ (65999 :> 998641344) @@ (66000 :> 998641480) @@ (98000 :> 999944551)
 @@ (131998 :> 999998149) @@ (131999 :> 999998149) @@ (132000 :> 999998149)
 @@ (197999 :> 999999997) @@ (198000 :> 999999997) @@ (264000 :> 999999999)

Sigmoid(x) == sigmoid_table[x]

\* A defect: the two columns stacked in the other order.
StackTSwapped(row_sums) ==
    [i \in 1..Len(row_sums) |-> <<Sigmoid(row_sums[i]), PUnit - Sigmoid(row_sums[i])>>]

\* probs_neg = 1.0 - probs_pos; np.vstack([probs_neg, probs_pos]).T: one row
\* (probs_neg[i], probs_pos[i]) per input row.
StackT(row_sums) ==
    [i \in 1..Len(row_sums) |-> <<PUnit - Sigmoid(row_sums[i]), Sigmoid(row_sums[i])>>]

\* ----------------------------------------------------------------- predict

\* A defect: proba[:, 0], the probabilities of class 0.
Column0(proba) == [i \in 1..Len(proba) |-> proba[i][1]]

\* proba[:, 1].tolist(): the second column.
Column1(proba) == [i \in 1..Len(proba) |-> proba[i][2]]

\* int(s >= 0.5)
Label(s) == IF s >= Threshold THEN 1 ELSE 0

\* A defect: the score returned as a percentage, round(100 * s, 4).
Round4Percent(s) == s \div (RoundUnit \div 100)

\* round(float(s), 4): to the nearest 1e-4, a tie to the even one.
Round4(s) ==
    LET q == s \div RoundUnit
        r == s % RoundUnit
    IN  IF 2 * r > RoundUnit THEN q + 1
        ELSE IF 2 * r < RoundUnit THEN q
        ELSE IF q % 2 = 0 THEN q ELSE q + 1

Pending == [kind |-> "pending", exc |-> "", predictions |-> <<>>,
            scores |-> <<>>, model_version |-> ""]

\* The request was refused by the schema: the JSON layer answers 4xx.
ValidationError == [Pending EXCEPT !.kind = "ValidationError"]

\* An exception left predict uncaught.
Unhandled(exc) == [Pending EXCEPT !.kind = "unhandled", !.exc = exc]

\* A defect: the label taken from the rounded score.
PredictionResponseOfRounded(scores) ==
    [kind |-> "response", exc |-> "",
     predictions |-> [i \in 1..Len(scores) |->
                         IF Round4(scores[i]) * RoundUnit >= Threshold THEN 1 ELSE 0],
     scores |-> [i \in 1..Len(scores) |-> Round4(scores[i])],
     model_version |-> MODEL_VERSION]

\* PredictionResponse(predictions=..., scores=..., model_version="v1.0.0")
PredictionResponse(scores) ==
    [kind |-> "response", exc |-> "",
     predictions |-> [i \in 1..Len(scores) |-> Label(scores[i])],
     scores |-> [i \in 1..Len(scores) |-> Round4(scores[i])],
     model_version |-> MODEL_VERSION]

\* ------------------------------------------------------------------- state

VARIABLES
    legacy_numpy,  \* the build: np.asarray makes an object array of ragged input
    dummy_model,   \* the attributes of the module-level DummyModel instance
    payload,       \* per handler: the request's JSON "features"
    pc,            \* per handler: the next step
    X,             \* per handler: predict_proba's X after np.asarray
    row_sums,      \* per handler: predict_proba's row_sums
    proba,         \* per handler: predict's proba
    outcome        \* per handler: how the request ended

vars == <<legacy_numpy, dummy_model, payload, pc, X, row_sums, proba, outcome>>

Handlers == DOMAIN pc

InitOf(handlers, payloads) ==
    /\ legacy_numpy \in BOOLEAN
    /\ dummy_model = <<>>
    /\ payload \in [handlers -> payloads]
    /\ pc = [h \in handlers |-> "parse"]
    /\ X = [h \in handlers |-> NoArray]
    /\ row_sums = [h \in handlers |-> <<>>]
    /\ proba = [h \in handlers |-> <<>>]
    /\ outcome = [h \in handlers |-> Pending]

\* One request, any payload.
Init == InitOf({1}, Payloads(Numbers, {JString}))

\* Two requests in flight at once on the shared dummy_model.
InitConc == InitOf({1, 2}, Payloads(ConcNumbers, {}))

Finish(h, result) ==
    /\ pc' = [pc EXCEPT ![h] = "done"]
    /\ outcome' = [outcome EXCEPT ![h] = result]

\* JSON(pydantic_model=PredictionRequest): the body is parsed before predict
\* is entered; a body that does not validate is answered without calling it.
ParseRequest(h) ==
    /\ pc[h] = "parse"
    /\ IF RequestValidates(payload[h])
       THEN /\ pc' = [pc EXCEPT ![h] = "asarray"]
            /\ UNCHANGED outcome
       ELSE Finish(h, ValidationError)
    /\ UNCHANGED <<legacy_numpy, dummy_model, payload, X, row_sums, proba>>

\* X = request.features; dummy_model.predict_proba(X): X = np.asarray(X)
PredictProbaAsarray(h) ==
    /\ pc[h] = "asarray"
    /\ LET a == asarray(RequestFeatures(payload[h]), legacy_numpy)
       IN  IF a.raised # ""
           THEN /\ Finish(h, Unhandled(a.raised))
                /\ UNCHANGED X
           ELSE /\ X' = [X EXCEPT ![h] = a]
                /\ pc' = [pc EXCEPT ![h] = "sum"]
                /\ UNCHANGED outcome
    /\ UNCHANGED <<legacy_numpy, dummy_model, payload, row_sums, proba>>

\* A defect of the kind a stateful model would have: predict_proba keeps the
\* first array it sees on the instance and sums that one from then on.
PredictProbaSumCached(h) ==
    /\ pc[h] = "sum"
    /\ dummy_model' = IF dummy_model = <<>> THEN <<X[h]>> ELSE dummy_model
    /\ IF SumRaises(dummy_model'[1])
       THEN /\ Finish(h, Unhandled("AxisError"))
            /\ UNCHANGED row_sums
       ELSE /\ row_sums' = [row_sums EXCEPT ![h] = RowSums(dummy_model'[1])]
            /\ pc' = [pc EXCEPT ![h] = "stack"]
            /\ UNCHANGED outcome
    /\ UNCHANGED <<legacy_numpy, payload, X, proba>>

\* row_sums = X.sum(axis=1)
PredictProbaSum(h) ==
    /\ pc[h] = "sum"
    /\ IF SumRaises(X[h])
       THEN /\ Finish(h, Unhandled("AxisError"))
            /\ UNCHANGED row_sums
       ELSE /\ row_sums' = [row_sums EXCEPT ![h] = RowSums(X[h])]
            /\ pc' = [pc EXCEPT ![h] = "stack"]
            /\ UNCHANGED outcome
    /\ UNCHANGED <<legacy_numpy, dummy_model, payload, X, proba>>

\* probs_pos, probs_neg, return np.vstack([probs_neg, probs_pos]).T
PredictProbaStack(h) ==
    /\ pc[h] = "stack"
    /\ proba' = [proba EXCEPT ![h] = StackT(row_sums[h])]
    /\ pc' = [pc EXCEPT ![h] = "respond"]
    /\ UNCHANGED <<legacy_numpy, dummy_model, payload, X, row_sums, outcome>>

\* scores = proba[:, 1].tolist(); predictions; return PredictionResponse(...)
PredictRespond(h) ==
    /\ pc[h] = "respond"
    /\ Finish(h, PredictionResponse(Column1(proba[h])))
    /\ UNCHANGED <<legacy_numpy, dummy_model, payload, X, row_sums, proba>>

Next ==
    \/ \E h \in Handlers : ParseRequest(h)
    \/ \E h \in Handlers : PredictProbaAsarray(h)
    \/ \E h \in Handlers : PredictProbaSum(h)
    \/ \E h \in Handlers : PredictProbaStack(h)
    \/ \E h \in Handlers : PredictRespond(h)

Spec == Init /\ [][Next]_vars

SpecConc == InitConc /\ [][Next]_vars

\* The whole handler as a function of the request and the build: what one
\* request run alone, start to end, is answered.
Serve(p, legacy) ==
    IF ~RequestValidates(p) THEN ValidationError
    ELSE LET a == asarray(RequestFeatures(p), legacy)
         IN  IF a.raised # "" THEN Unhandled(a.raised)
             ELSE IF SumRaises(a) THEN Unhandled("AxisError")
             ELSE PredictionResponse(Column1(StackT(RowSums(a))))

\* ------------------------------------------------------------------ claims

Done(h) == pc[h] = "done"

Succeeded(h) == Done(h) /\ outcome[h].kind = "response"

\* The floats of handler h's request.
F(h) == RequestFeatures(payload[h])

\* A valid features matrix: numeric, at least one row, every row of the same
\* length, at least one element in a row.
ValidMatrix(p) ==
    /\ RequestValidates(p)
    /\ Len(p) >= 1
    /\ Len(p[1]) >= 1
    /\ \A i \in 1..Len(p) : Len(p[i]) = Len(p[1])

Abs(n) == IF n < 0 THEN -n ELSE n

\* A returned score as a probability.
AsProb(score) == score * RoundUnit

\* C1: for every valid features matrix and every row i, the returned scores[i]
\* is the sigmoid of the sum of row i rounded to 4 decimals: the multiple of
\* 1e-4 nearest to it (no further than half of 1e-4 away), and the one Python's
\* round gives.
ScoresAreRoundedSigmoid ==
    \A h \in Handlers :
        (Done(h) /\ ValidMatrix(payload[h])) =>
            /\ outcome[h].kind = "response"
            /\ Len(outcome[h].scores) = Len(payload[h])
            /\ \A i \in 1..Len(payload[h]) :
                   LET p == Sigmoid(SumSeq(F(h)[i]))
                       s == outcome[h].scores[i]
                   IN  /\ 2 * Abs(AsProb(s) - p) <= RoundUnit
                       /\ s = Round4(p)

\* A two-row valid request was answered with two different scores, neither 0.5.
ScoresWitness ==
    \E h \in Handlers :
        /\ Succeeded(h) /\ ValidMatrix(payload[h]) /\ Len(payload[h]) = 2
        /\ outcome[h].scores[1] # outcome[h].scores[2]
        /\ outcome[h].scores[1] = Round4(Sigmoid(SumSeq(F(h)[1])))
        /\ outcome[h].scores[1] \notin {0, 5000, 10000}

\* C2, as stated: in every successful response predictions[i] is 1 if the
\* returned (rounded) scores[i] is >= 0.5 and 0 otherwise.
LabelMatchesReturnedScore ==
    \A h \in Handlers :
        Succeeded(h) =>
            \A i \in 1..Len(outcome[h].predictions) :
                outcome[h].predictions[i] =
                    (IF AsProb(outcome[h].scores[i]) >= Threshold THEN 1 ELSE 0)

\* C2, amended: in every successful response predictions[i] is 1 exactly when
\* the unrounded probability of row i is >= 0.5; so a label 1 comes with a
\* returned score >= 0.5 and a returned score > 0.5 with a label 1, while a
\* returned score of exactly 0.5 may come with a label 0.
LabelMatchesUnroundedProbability ==
    \A h \in Handlers :
        Succeeded(h) =>
            /\ Len(outcome[h].predictions) = Len(F(h))
            /\ \A i \in 1..Len(F(h)) :
                   LET p == Sigmoid(SumSeq(F(h)[i]))
                       s == outcome[h].scores[i]
                       l == outcome[h].predictions[i]
                   IN  /\ l = (IF p >= Threshold THEN 1 ELSE 0)
                       /\ (l = 1) => AsProb(s) >= Threshold
                       /\ AsProb(s) > Threshold => (l = 1)

\* A row whose probability is just below 0.5 was answered: score 0.5, label 0.
LabelWitness ==
    \E h \in Handlers :
        /\ Succeeded(h)
        /\ \E i \in 1..Len(F(h)) :
               /\ Sigmoid(SumSeq(F(h)[i])) < Threshold
               /\ AsProb(outcome[h].scores[i]) = Threshold
               /\ outcome[h].predictions[i] = 0

\* C3: a valid features matrix is answered with exactly one label and one score
\* per input row.
LengthsMatch ==
    \A h \in Handlers :
        (Done(h) /\ ValidMatrix(payload[h])) =>
            /\ outcome[h].kind = "response"
            /\ Len(outcome[h].predictions) = Len(payload[h])
            /\ Len(outcome[h].scores) = Len(payload[h])

\* A valid request with more rows than columns was answered.
LengthsWitness ==
    \E h \in Handlers :
        /\ Succeeded(h) /\ ValidMatrix(payload[h])
        /\ Len(payload[h]) = 2 /\ Len(payload[h][1]) = 1
        /\ Len(outcome[h].scores) = 2

\* C4: a request whose features array is empty is rejected with a validation
\* error: it is neither answered with a response nor left as an unhandled fault
\* of the scoring code.
EmptyFeaturesRejected ==
    \A h \in Handlers :
        (Done(h) /\ payload[h] = <<>>) => outcome[h].kind = "ValidationError"

\* C5: a request with a row of length zero fails with a validation error and is
\* never answered with a score or a label.
EmptyRowRejected ==
    \A h \in Handlers :
        (Done(h) /\ \E i \in 1..Len(payload[h]) : Len(payload[h][i]) = 0) =>
            outcome[h].kind = "ValidationError"

\* C6: a numeric request whose rows have inconsistent lengths fails with a
\* ShapeError and is never answered with a response.
JaggedIsShapeError ==
    \A h \in Handlers :
        (Done(h) /\ RequestValidates(payload[h]) /\ Ragged(payload[h])) =>
            outcome[h].kind = "ShapeError"

\* C7: every request ends either in a full response (a label and a score for
\* every row, and the model version) or in an error response; no failure of the
\* computation is left as an unhandled fault.
AllOrNothing ==
    \A h \in Handlers :
        Done(h) =>
            \/ /\ outcome[h].kind = "response"
               /\ Len(outcome[h].predictions) = Len(payload[h])
               /\ Len(outcome[h].scores) = Len(payload[h])
               /\ outcome[h].model_version = "v1.0.0"
            \/ outcome[h].kind \in {"ValidationError", "ShapeError", "ComputationError"}

\* p with element j of row i replaced by the number v.
WithElement(p, i, j, v) == [p EXCEPT ![i][j] = JNumber(v)]

\* C8: making one element of row i of a valid matrix larger never lowers
\* scores[i], never turns predictions[i] from 1 to 0, and leaves the scores of
\* the other rows as they were.
Monotone ==
    \A h \in Handlers :
        (Done(h) /\ ValidMatrix(payload[h])) =>
            /\ outcome[h].kind = "response"
            /\ \A i \in 1..Len(payload[h]) : \A j \in 1..Len(payload[h][i]) :
               \A v \in Numbers :
                   v > F(h)[i][j] =>
                       LET r2 == Serve(WithElement(payload[h], i, j, v), legacy_numpy)
                       IN  /\ r2.kind = "response"
                           /\ r2.scores[i] >= outcome[h].scores[i]
                           /\ r2.predictions[i] >= outcome[h].predictions[i]
                           /\ \A k \in 1..Len(payload[h]) :
                                  k # i => r2.scores[k] = outcome[h].scores[k]

\* A valid request was answered whose row score rises, and whose label turns
\* to 1, when one of its elements is made larger.
MonotoneWitness ==
    \E h \in Handlers :
        /\ Succeeded(h) /\ ValidMatrix(payload[h]) /\ Len(payload[h]) = 2
        /\ \E i \in 1..Len(payload[h]) : \E j \in 1..Len(payload[h][i]) :
           \E v \in Numbers :
               /\ v > F(h)[i][j]
               /\ LET r2 == Serve(WithElement(payload[h], i, j, v), legacy_numpy)
                  IN  /\ r2.scores[i] > outcome[h].scores[i]
                      /\ r2.predictions[i] > outcome[h].predictions[i]

\* C9: whatever the interleaving of the requests in flight, a finished request
\* was answered what its own features alone determine (the answer it gets when
\* run alone), two finished requests with the same features were answered the
\* same, and the shared dummy_model holds no state.
PureAndStateless ==
    /\ dummy_model = <<>>
    /\ \A h \in Handlers :
           Done(h) => outcome[h] = Serve(payload[h], legacy_numpy)
    /\ \A h1, h2 \in Handlers :
           (Done(h1) /\ Done(h2) /\ payload[h1] = payload[h2]) =>
               outcome[h1] = outcome[h2]

\* Two requests in flight at once, with different features, were both answered,
\* with different scores.
PureWitness ==
    \E h1, h2 \in Handlers :
        /\ h1 # h2 /\ Succeeded(h1) /\ Succeeded(h2)
        /\ payload[h1] # payload[h2]
        /\ outcome[h1].scores # outcome[h2].scores
        /\ outcome[h1].scores # <<>> /\ outcome[h2].scores # <<>>

====
